---- MODULE Spec2Model ----
(***************************************************************************)
(* Pattern Maker Agent (src/app/page.tsx): the pattern compiler            *)
(* createPatternStyle, the serializer buildCssSnippet, the scorer          *)
(* calculateComplexity, the clipboard hook useCopy and the Home component. *)
(*                                                                         *)
(* JavaScript numbers are modelled as exact extended rationals             *)
(* [n |-> numerator, d |-> denominator]: d > 0 in lowest terms for a       *)
(* finite number, 1/0 for Infinity, -1/0 for -Infinity and 0/0 for NaN.    *)
(* Binary floating-point rounding of the last digit is not modelled.       *)
(*                                                                         *)
(* A JavaScript string built by a template literal is a sequence of parts: *)
(* the literal chunks of the template, the interpolated strings and the    *)
(* interpolated numbers, in order.                                         *)
(***************************************************************************)
EXTENDS Integers, Sequences, FiniteSets, TLC

VARIABLES
    patternType,      \* Home: useState<PatternType>
    config,           \* Home: useState<PatternConfig>
    copied,           \* useCopy: useState(false)
    pending,          \* useCopy: clipboard writes awaited by a copy() call
    timers,           \* useCopy: setTimeout callbacks not yet run
    consoleErrors,    \* console.error calls made by copy()
    styleMemo,        \* Home: useMemo of createPatternStyle, with its deps
    cssSnippet,       \* Home: useMemo of buildCssSnippet(styles)
    complexityScore,  \* Home: useMemo of calculateComplexity(config)
    edits,            \* field edits since the last preset or reset
    compiled,         \* direct calls of createPatternStyle: <<>> or <<call>>
    styleObj,         \* a CSSProperties object handed to buildCssSnippet
    snippet,          \* direct calls of buildCssSnippet: <<>> or <<text>>
    scored            \* the last two direct calls of calculateComplexity

appVars == <<patternType, config, copied, pending, timers, consoleErrors,
             styleMemo, cssSnippet, complexityScore, edits>>
harnessVars == <<compiled, styleObj, snippet, scored>>
vars == <<patternType, config, copied, pending, timers, consoleErrors,
          styleMemo, cssSnippet, complexityScore, edits,
          compiled, styleObj, snippet, scored>>

(***************************************************************************)
(* Numbers                                                                 *)
(***************************************************************************)
Abs(i) == IF i < 0 THEN -i ELSE i

Sign(i) == IF i < 0 THEN -1 ELSE IF i > 0 THEN 1 ELSE 0

RECURSIVE Gcd(_, _)
Gcd(a, b) == IF b = 0 THEN a ELSE Gcd(b, a % b)

Rat(n, d) ==
    IF d = 0 THEN [n |-> Sign(n), d |-> 0]
    ELSE LET g == Gcd(Abs(n), Abs(d))
         IN  [n |-> (Sign(d) * n) \div g, d |-> Abs(d) \div g]

Num(i) == [n |-> i, d |-> 1]

NaN == [n |-> 0, d |-> 0]

PosInf == [n |-> 1, d |-> 0]

NegInf == [n |-> -1, d |-> 0]

IsNaN(x) == x.n = 0 /\ x.d = 0

IsFinite(x) == x.d # 0

\* x + y
Add(x, y) ==
    IF IsNaN(x) \/ IsNaN(y) THEN NaN
    ELSE IF ~IsFinite(x) /\ ~IsFinite(y) THEN (IF x = y THEN x ELSE NaN)
    ELSE IF ~IsFinite(x) THEN x
    ELSE IF ~IsFinite(y) THEN y
    ELSE Rat(x.n * y.d + y.n * x.d, x.d * y.d)

\* x * y
Mul(x, y) ==
    IF IsNaN(x) \/ IsNaN(y) THEN NaN
    ELSE IF ~IsFinite(x) \/ ~IsFinite(y)
         THEN Rat(Sign(x.n) * Sign(y.n), 0)
    ELSE Rat(x.n * y.n, x.d * y.d)

\* x / y (a zero divisor is +0)
Div(x, y) ==
    IF IsNaN(x) \/ IsNaN(y) THEN NaN
    ELSE IF ~IsFinite(x) /\ ~IsFinite(y) THEN NaN
    ELSE IF ~IsFinite(y) THEN Num(0)
    ELSE IF ~IsFinite(x) THEN Rat(x.n * (IF y.n < 0 THEN -1 ELSE 1), 0)
    ELSE Rat(x.n * y.d, x.d * y.n)

\* x < y; every comparison with NaN is false
Lt(x, y) ==
    /\ ~IsNaN(x)
    /\ ~IsNaN(y)
    /\ x # y
    /\ \/ x = NegInf
       \/ y = PosInf
       \/ IsFinite(x) /\ IsFinite(y) /\ x.n * y.d < y.n * x.d

Leq(x, y) == ~IsNaN(x) /\ ~IsNaN(y) /\ (x = y \/ Lt(x, y))

MathMax(a, b) == IF IsNaN(a) \/ IsNaN(b) THEN NaN ELSE IF Lt(a, b) THEN b ELSE a

MathMin(a, b) == IF IsNaN(a) \/ IsNaN(b) THEN NaN ELSE IF Lt(b, a) THEN b ELSE a

\* Math.round: the nearest integer, a half rounded up
MathRound(x) == IF ~IsFinite(x) THEN x ELSE Num((2 * x.n + x.d) \div (2 * x.d))

RECURSIVE Pow10(_)
Pow10(k) == IF k = 0 THEN 1 ELSE 10 * Pow10(k - 1)

\* Number.prototype.toFixed: the decimal with `digits` fraction digits
\* nearest to x, a half rounded away from zero
toFixed(x, digits) ==
    IF ~IsFinite(x) THEN x
    ELSE LET p == Pow10(digits)
             m == (2 * Abs(x.n) * p + x.d) \div (2 * x.d)
         IN  Rat(Sign(x.n) * m, p)

clamp(value, min, max) == MathMin(MathMax(value, min), max)

(***************************************************************************)
(* Strings built by template literals                                      *)
(***************************************************************************)
\* a literal chunk of a template
Lit(s) == [k |-> "lit", s |-> s, x |-> Num(0)]

\* ${s} for a string s
Str(s) == [k |-> "str", s |-> s, x |-> Num(0)]

\* ${x} for a number x
Val(x) == [k |-> "num", s |-> "", x |-> x]

\* the empty string is the only falsy string
IsEmptyStr(str) == \A i \in 1..Len(str) : str[i].k \in {"lit", "str"} /\ str[i].s = ""

(***************************************************************************)
(* Objects: entries in insertion order                                     *)
(***************************************************************************)
ObjHas(obj, key) == \E i \in 1..Len(obj) : obj[i].key = key

ObjGet(obj, key) == obj[CHOOSE i \in 1..Len(obj) : obj[i].key = key].value

\* obj[key] = value: an existing key keeps its place
ObjSet(obj, key, value) ==
    IF ObjHas(obj, key)
    THEN [i \in 1..Len(obj) |->
            IF obj[i].key = key THEN [key |-> key, value |-> value] ELSE obj[i]]
    ELSE Append(obj, [key |-> key, value |-> value])

\* if (obj.key): the attribute is there and is not the empty string
Truthy(obj, key) == ObjHas(obj, key) /\ ~IsEmptyStr(ObjGet(obj, key))

(***************************************************************************)
(* createPatternStyle                                                      *)
(***************************************************************************)
PatternTypes == {"stripes", "grid", "dots", "weave", "chevron"}

normalizedDensity(cfg) == clamp(Num(cfg.density), Num(10), Num(180))

\* thickness clamped to the density range instead of the clamped density
normalizedThicknessUpTo180(cfg) == clamp(Num(cfg.thickness), Num(2), Num(180))

normalizedThickness(cfg) == clamp(Num(cfg.thickness), Num(2), normalizedDensity(cfg))

blurStrength(cfg) == clamp(Num(cfg.softness), Num(0), Num(100))

\* the scale used unclamped
scaleFactorUnclamped(cfg) == Div(Num(cfg.scale), Num(100))

scaleFactor(cfg) == Div(clamp(Num(cfg.scale), Num(40), Num(200)), Num(100))

baseStyles(cfg) ==
    << [key |-> "backgroundColor", value |-> <<Str(cfg.secondaryColor)>>],
       [key |-> "backgroundAttachment", value |-> <<Lit("fixed")>>],
       [key |-> "backgroundRepeat", value |-> <<Lit("repeat")>>],
       [key |-> "filter", value |->
            << Lit("drop-shadow(0 18px 32px rgba(12, 17, 31, "),
               Val(Add(Rat(28, 100), Div(blurStrength(cfg), Num(420)))),
               Lit("))") >>] >>

\* the tile edge normalizedDensity * scaleFactor
tileSize(cfg) == Mul(normalizedDensity(cfg), scaleFactor(cfg))

\* `${a}px ${b}px`
squareSize(a, b) == << Val(a), Lit("px "), Val(b), Lit("px") >>

\* `repeating-linear-gradient(${angle}deg, ${color} 0 ${band}px, ${gap} ${band}px ${period}px)`
bandGradient(angle, color, band, gap, period) ==
    << Lit("repeating-linear-gradient("), Val(angle), Lit("deg, "), Str(color),
       Lit(" 0 "), Val(band), Lit("px, ") >> \o gap \o
    << Lit(" "), Val(band), Lit("px "), Val(period), Lit("px)") >>

stripesStyle(cfg) ==
    LET nt == normalizedThickness(cfg)
        nd == normalizedDensity(cfg)
        blur == blurStrength(cfg)
        gradient == bandGradient(Num(cfg.angle), cfg.primaryColor, nt,
                                 <<Str(cfg.secondaryColor)>>, nd)
        highlight == << Lit("linear-gradient("), Val(Num(cfg.angle + 90)),
                        Lit("deg, rgba(255, 255, 255, "),
                        Val(Add(Rat(8, 100), Div(blur, Num(900)))),
                        Lit(") 0%, transparent 60%)") >>
    IN  [ styles |->
            ObjSet(ObjSet(ObjSet(baseStyles(cfg),
                "backgroundImage", gradient \o <<Lit(", ")>> \o highlight),
                "backgroundBlendMode", <<Lit("screen")>>),
                "backgroundSize", << Val(tileSize(cfg)), Lit("px") >>),
          descriptor |->
            << Lit("Precise "), Val(nt), Lit("px stripe cadence at "),
               Val(toFixed(Num(cfg.angle), 0)), Lit("°. "),
               Val(MathRound(Mul(Div(nt, nd), Num(100)))),
               Lit("% coverage with luminance overlay.") >>,
          layering |->
            << << Lit("Layer 1 (Structure): repeating-linear-gradient → cadence "),
                  Val(nd), Lit("px") >>,
               << Lit("Layer 2 (Glow): linear-gradient → softened highlight at "),
                  Val(toFixed(Num(cfg.angle + 90), 0)), Lit("°") >> >> ]

gridStyle(cfg) ==
    LET nt == normalizedThickness(cfg)
        nd == normalizedDensity(cfg)
        blur == blurStrength(cfg)
        horizontal == bandGradient(Num(0), cfg.primaryColor, nt, <<Lit("transparent")>>, nd)
        vertical == bandGradient(Num(90), cfg.primaryColor, nt, <<Lit("transparent")>>, nd)
        circuitry == << Lit("linear-gradient(135deg, transparent 30%, rgba(16, 215, 226, "),
                        Val(Add(Rat(22, 100), Div(blur, Num(500)))), Lit(") 100%)") >>
    IN  [ styles |->
            ObjSet(ObjSet(ObjSet(baseStyles(cfg),
                "backgroundImage",
                    horizontal \o <<Lit(", ")>> \o vertical \o <<Lit(", ")>> \o circuitry),
                "backgroundBlendMode", <<Lit("screen, lighten, normal")>>),
                "backgroundSize", squareSize(tileSize(cfg), tileSize(cfg))),
          descriptor |->
            << Lit("Orthogonal grid with "), Val(nt), Lit("px conductors and "),
               Val(nd), Lit("px spacing. Neon highlight bias.") >>,
          layering |->
            << << Lit("Layer 1 (Horizontal bus): repeating-linear-gradient 0°") >>,
               << Lit("Layer 2 (Vertical bus): repeating-linear-gradient 90°") >>,
               << Lit("Layer 3 (Charge wash): linear-gradient 135°") >> >> ]

\* the radius with no lower bound
dotRadiusNoFloor(cfg) ==
    MathMin(normalizedThickness(cfg), Div(normalizedDensity(cfg), Rat(16, 10)))

dotRadiusOf(cfg) ==
    clamp(normalizedThickness(cfg), Num(4), Div(normalizedDensity(cfg), Rat(16, 10)))

dotsStyle(cfg) ==
    LET nd == normalizedDensity(cfg)
        blur == blurStrength(cfg)
        dotRadius == dotRadiusOf(cfg)
        dot == << Lit("radial-gradient(circle, "), Str(cfg.primaryColor), Lit(" 0 "),
                  Val(dotRadius), Lit("px, rgba(255, 255, 255, "),
                  Val(Add(Rat(5, 100), Div(blur, Num(1000)))), Lit(") "),
                  Val(Add(dotRadius, Num(1))), Lit("px, transparent "),
                  Val(Add(dotRadius, Num(2))), Lit("px)") >>
        grid == << Lit("radial-gradient(circle at 25% 25%, rgba(255,255,255,"),
                   Val(Add(Rat(4, 100), Div(blur, Num(1200)))),
                   Lit(") 0 18%, transparent 52%)") >>
    IN  [ styles |->
            ObjSet(ObjSet(ObjSet(ObjSet(baseStyles(cfg),
                "backgroundColor", <<Str(cfg.secondaryColor)>>),
                "backgroundImage", dot \o <<Lit(", ")>> \o grid),
                "backgroundSize", squareSize(tileSize(cfg), tileSize(cfg))),
                "backgroundPosition", <<Lit("0 0, calc(50% / 3) calc(50% / 3)")>>),
          descriptor |->
            << Lit("Radial nodes radius "), Val(dotRadius), Lit("px with "),
               Val(nd), Lit("px grid pitch. Diffused halo "),
               Val(toFixed(Div(blur, Num(100)), 2)), Lit(".") >>,
          layering |->
            << << Lit("Layer 1 (Core nodes): radial-gradient circle") >>,
               << Lit("Layer 2 (Halo mesh): offset radial-gradient") >> >> ]

weaveStyle(cfg) ==
    LET nt == normalizedThickness(cfg)
        nd == normalizedDensity(cfg)
        blur == blurStrength(cfg)
        warp == bandGradient(Num(90), cfg.primaryColor, nt,
                    << Lit("rgba(255,255,255,"),
                       Val(Add(Rat(4, 100), Div(blur, Num(900)))), Lit(")") >>, nd)
        weft == bandGradient(Num(0), cfg.accentColor, nt, <<Lit("transparent")>>, nd)
        tailoring == << Lit("linear-gradient("), Val(Num(cfg.angle)),
                        Lit("deg, rgba(0,0,0,0) 40%, rgba(255,255,255,"),
                        Val(Add(Rat(18, 100), Div(blur, Num(650)))), Lit(") 100%)") >>
    IN  [ styles |->
            ObjSet(ObjSet(ObjSet(baseStyles(cfg),
                "backgroundImage",
                    weft \o <<Lit(", ")>> \o warp \o <<Lit(", ")>> \o tailoring),
                "backgroundBlendMode", <<Lit("soft-light, lighten, normal")>>),
                "backgroundSize", squareSize(tileSize(cfg), tileSize(cfg))),
          descriptor |->
            << Lit("Dual-axis weave with "), Val(nt),
               Lit("px filament width. Angle-modulated sheen at "),
               Val(Num(cfg.angle)), Lit("°.") >>,
          layering |->
            << << Lit("Layer 1 (Weft): repeating-linear-gradient 0°") >>,
               << Lit("Layer 2 (Warp): repeating-linear-gradient 90°") >>,
               << Lit("Layer 3 (Sheen): directional linear-gradient") >> >> ]

chevronStyle(cfg) ==
    LET nt == normalizedThickness(cfg)
        blur == blurStrength(cfg)
        baseSize == Mul(normalizedDensity(cfg), scaleFactor(cfg))
        chevron == bandGradient(Num(cfg.angle), cfg.primaryColor, nt,
                                <<Lit("transparent")>>, Mul(nt, Num(2)))
        mirrored == bandGradient(Num(cfg.angle - 90), cfg.accentColor,
                                 Div(nt, Rat(13, 10)), <<Lit("transparent")>>,
                                 Mul(nt, Num(2)))
        emboss == << Lit("linear-gradient("), Val(Num(cfg.angle)),
                     Lit("deg, rgba(0,0,0,0) 55%, rgba(255,255,255,"),
                     Val(Add(Rat(16, 100), Div(blur, Num(720)))), Lit(") 100%)") >>
    IN  [ styles |->
            ObjSet(ObjSet(ObjSet(ObjSet(baseStyles(cfg),
                "backgroundImage",
                    chevron \o <<Lit(", ")>> \o mirrored \o <<Lit(", ")>> \o emboss),
                "backgroundBlendMode", <<Lit("screen, lighten, soft-light")>>),
                "backgroundSize", squareSize(baseSize, baseSize)),
                "backgroundPosition", <<Lit("0 0, 12px 12px, center")>>),
          descriptor |->
            << Lit("Chevron motif anchored at "), Val(Num(cfg.angle)), Lit("°. "),
               Val(nt), Lit("px crest depth with mirrored accent interference.") >>,
          layering |->
            << << Lit("Layer 1 (Primary ridges): repeating-linear-gradient main angle") >>,
               << Lit("Layer 2 (Counter ridges): repeating-linear-gradient inverse") >>,
               << Lit("Layer 3 (Emboss): directional linear-gradient") >> >> ]

defaultStyle(cfg) ==
    [ styles |-> baseStyles(cfg),
      descriptor |-> <<Lit("Custom pattern")>>,
      layering |-> <<>> ]

\* an unrecognised kind drawn as stripes
createPatternStyleDefaultStripes(type, cfg) ==
    CASE type = "grid" -> gridStyle(cfg)
      [] type = "dots" -> dotsStyle(cfg)
      [] type = "weave" -> weaveStyle(cfg)
      [] type = "chevron" -> chevronStyle(cfg)
      [] OTHER -> stripesStyle(cfg)

createPatternStyle(type, cfg) ==
    CASE type = "stripes" -> stripesStyle(cfg)
      [] type = "grid" -> gridStyle(cfg)
      [] type = "dots" -> dotsStyle(cfg)
      [] type = "weave" -> weaveStyle(cfg)
      [] type = "chevron" -> chevronStyle(cfg)
      [] OTHER -> defaultStyle(cfg)

(***************************************************************************)
(* buildCssSnippet                                                         *)
(* A text is the sequence of its lines (the string split at "\n"); the     *)
(* empty string is the one-line text << <<>> >>.                           *)
(***************************************************************************)
\* a + b on texts: the last line of a runs on into the first line of b
TextCat(a, b) ==
    SubSeq(a, 1, Len(a) - 1) \o <<a[Len(a)] \o b[1]>> \o SubSeq(b, 2, Len(b))

\* Array.prototype.join on one-line strings; the empty array joins to ""
RECURSIVE join(_, _)
join(items, sep) ==
    IF Len(items) = 0 THEN << <<>> >>
    ELSE IF Len(items) = 1 THEN <<items[1]>>
    ELSE TextCat(TextCat(<<items[1]>>, sep), join(Tail(items), sep))

\* the attributes written, in the order of the if statements
cssProps ==
    << [key |-> "backgroundColor", prop |-> "background-color: "],
       [key |-> "backgroundImage", prop |-> "background-image: "],
       [key |-> "backgroundSize", prop |-> "background-size: "],
       [key |-> "backgroundAttachment", prop |-> "background-attachment: "],
       [key |-> "backgroundPosition", prop |-> "background-position: "],
       [key |-> "backgroundBlendMode", prop |-> "background-blend-mode: "],
       [key |-> "filter", prop |-> "filter: "] >>

\* `${prop}${value};`
declaration(prop, value) == <<Lit(prop)>> \o value \o <<Lit(";")>>

\* the declarations pushed by the if statements i.. of buildCssSnippet
RECURSIVE declarationsFrom(_, _)
declarationsFrom(styles, i) ==
    IF i > Len(cssProps) THEN <<>>
    ELSE (IF Truthy(styles, cssProps[i].key)
          THEN <<declaration(cssProps[i].prop, ObjGet(styles, cssProps[i].key))>>
          ELSE <<>>) \o declarationsFrom(styles, i + 1)

\* the declarations written in the order the style holds its attributes
RECURSIVE declarationsInInsertionOrder(_, _)
declarationsInInsertionOrder(styles, i) ==
    IF i > Len(styles) THEN <<>>
    ELSE (IF \E j \in 1..Len(cssProps) : cssProps[j].key = styles[i].key
          THEN LET j == CHOOSE j \in 1..Len(cssProps) : cssProps[j].key = styles[i].key
               IN  IF IsEmptyStr(styles[i].value) THEN <<>>
                   ELSE <<declaration(cssProps[j].prop, styles[i].value)>>
          ELSE <<>>) \o declarationsInInsertionOrder(styles, i + 1)

\* `.pattern-surface {\n  ${body}\n}`
ruleBlock(body) ==
    TextCat(TextCat(<< <<Lit(".pattern-surface {")>>, <<Lit("  ")>> >>, body),
            << <<>>, <<Lit("}")>> >>)

buildCssSnippetInsertionOrder(styles) ==
    ruleBlock(join(declarationsInInsertionOrder(styles, 1), << <<>>, <<Lit("  ")>> >>))

buildCssSnippet(styles) ==
    ruleBlock(join(declarationsFrom(styles, 1), << <<>>, <<Lit("  ")>> >>))

(***************************************************************************)
(* calculateComplexity                                                     *)
(***************************************************************************)
\* the ratio taken upside down: density / thickness
calculateComplexityInverted(cfg) ==
    LET filamentDensity == Div(Num(cfg.density), Num(cfg.thickness))
        softnessInfluence == Div(Num(cfg.softness), Num(100))
        scorerScaleFactor == Div(Num(cfg.scale), Num(100))
        normalized == clamp(Add(Add(Mul(filamentDensity, Num(60)),
                                    Mul(softnessInfluence, Num(28))),
                                Mul(scorerScaleFactor, Num(12))),
                            Num(6), Num(98))
    IN  MathRound(normalized)

\* the weighted sum rounded without the clamp to [6, 98]
calculateComplexityUnclamped(cfg) ==
    LET filamentDensity == Div(Num(cfg.thickness), Num(cfg.density))
        softnessInfluence == Div(Num(cfg.softness), Num(100))
        scorerScaleFactor == Div(Num(cfg.scale), Num(100))
    IN  MathRound(Add(Add(Mul(filamentDensity, Num(60)),
                          Mul(softnessInfluence, Num(28))),
                      Mul(scorerScaleFactor, Num(12))))

calculateComplexity(cfg) ==
    LET filamentDensity == Div(Num(cfg.thickness), Num(cfg.density))
        softnessInfluence == Div(Num(cfg.softness), Num(100))
        scorerScaleFactor == Div(Num(cfg.scale), Num(100))
        normalized == clamp(Add(Add(Mul(filamentDensity, Num(60)),
                                    Mul(softnessInfluence, Num(28))),
                                Mul(scorerScaleFactor, Num(12))),
                            Num(6), Num(98))
    IN  MathRound(normalized)

(***************************************************************************)
(* Initial state of the page, and of the direct calls                      *)
(***************************************************************************)
presets ==
    << [ name |-> "Neon Strata", type |-> "stripes",
         config |-> [ primaryColor |-> "#5b8dff", secondaryColor |-> "#0c111f",
                      accentColor |-> "#9b6cff", angle |-> 128, density |-> 46,
                      thickness |-> 18, softness |-> 32, scale |-> 100 ] ],
       [ name |-> "Circuit Grid", type |-> "grid",
         config |-> [ primaryColor |-> "#73a3ff", secondaryColor |-> "#11182b",
                      accentColor |-> "#10d7e2", angle |-> 0, density |-> 58,
                      thickness |-> 10, softness |-> 44, scale |-> 120 ] ],
       [ name |-> "Orbital Dots", type |-> "dots",
         config |-> [ primaryColor |-> "#93b4ff", secondaryColor |-> "#0a0f1d",
                      accentColor |-> "#734bff", angle |-> 0, density |-> 70,
                      thickness |-> 16, softness |-> 68, scale |-> 140 ] ],
       [ name |-> "Textile Weave", type |-> "weave",
         config |-> [ primaryColor |-> "#6fa4ff", secondaryColor |-> "#0f1628",
                      accentColor |-> "#ff8bcf", angle |-> 45, density |-> 52,
                      thickness |-> 14, softness |-> 36, scale |-> 110 ] ],
       [ name |-> "Precision Chevron", type |-> "chevron",
         config |-> [ primaryColor |-> "#8aa6ff", secondaryColor |-> "#0f1425",
                      accentColor |-> "#54f2c5", angle |-> 135, density |-> 60,
                      thickness |-> 14, softness |-> 30, scale |-> 105 ] ] >>

defaultConfig ==
    [ primaryColor |-> "#5b8dff", secondaryColor |-> "#0c111f", accentColor |-> "#9b6cff",
      angle |-> 45, density |-> 48, thickness |-> 14, softness |-> 48, scale |-> 100 ]

\* inputs of the direct calls of createPatternStyle
CompileTypes == PatternTypes \cup {"zigzag"}
CompileDensities == {-5, 9, 10, 11, 46, 70, 180, 181}
CompileThicknesses == {-1, 2, 3, 4, 5, 7, 16, 18, 44, 113, 180, 200}
CompileScales == {0, 39, 40, 105, 200, 201}
CompileSoftness == {-10, 32, 130}
CompileAngles == {-30, 128}

CompileConfigs ==
    { [defaultConfig EXCEPT !.angle = a, !.density = d, !.thickness = t,
                            !.softness = so, !.scale = sc] :
        a \in CompileAngles, d \in CompileDensities, t \in CompileThicknesses,
        so \in CompileSoftness, sc \in CompileScales }

InitHarness ==
    /\ compiled = [type |-> "stripes", config |-> defaultConfig, out |-> <<>>]
    /\ styleObj = <<>>
    /\ snippet = <<>>
    /\ scored = <<>>

InitApp ==
    /\ patternType = "stripes"
    /\ config = defaultConfig
    /\ copied = FALSE
    /\ pending = 0
    /\ timers = 0
    /\ consoleErrors = 0
    /\ styleMemo = [deps |-> <<"stripes", defaultConfig>>,
                    value |-> createPatternStyle("stripes", defaultConfig)]
    /\ cssSnippet = buildCssSnippet(createPatternStyle("stripes", defaultConfig).styles)
    /\ complexityScore = calculateComplexity(defaultConfig)
    /\ edits = 0

(***************************************************************************)
(* Direct calls of createPatternStyle                                      *)
(***************************************************************************)
InitCompile ==
    /\ InitApp
    /\ InitHarness!2
    /\ InitHarness!3
    /\ InitHarness!4
    /\ compiled \in [type : CompileTypes, config : CompileConfigs, out : {<<>>}]

Compile ==
    /\ compiled.out = <<>>
    /\ compiled' = [compiled EXCEPT
                       !.out = <<createPatternStyle(compiled.type, compiled.config)>>]
    /\ UNCHANGED <<appVars, styleObj, snippet, scored>>

NextCompile == Compile

SpecCompile == InitCompile /\ [][NextCompile]_vars

(***************************************************************************)
(* What the claims read off a compiled style                               *)
(***************************************************************************)
\* the literal chunks that follow an interpolated length: they start with px
PxChunks ==
    { "px", "px ", "px, ", "px)", "px, rgba(255, 255, 255, ", "px, transparent ",
      "px stripe cadence at ", "px conductors and ", "px spacing. Neon highlight bias.",
      "px with ", "px grid pitch. Diffused halo ",
      "px filament width. Angle-modulated sheen at ",
      "px crest depth with mirrored accent interference." }

IsPxAt(str, i) ==
    /\ i < Len(str)
    /\ str[i].k = "num"
    /\ str[i + 1].k = "lit"
    /\ str[i + 1].s \in PxChunks

\* the lengths `${x}px` of a string, in order
RECURSIVE PxFrom(_, _)
PxFrom(str, i) ==
    IF i > Len(str) THEN <<>>
    ELSE IF IsPxAt(str, i) THEN <<str[i].x>> \o PxFrom(str, i + 1)
    ELSE PxFrom(str, i + 1)

PxLengths(str) == PxFrom(str, 1)

\* the layers of a background-image: its top-level ", " separators plus one
LayerCount(str) == 1 + Cardinality({i \in 1..Len(str) : str[i] = Lit(", ")})

Keys(obj) == {obj[i].key : i \in 1..Len(obj)}

CompileDone == compiled.out # <<>>

CompileOut == compiled.out[1]

CompiledImage == ObjGet(CompileOut.styles, "backgroundImage")

\* the clamps of the claims, on integers
ExpDensity(cfg) ==
    IF cfg.density < 10 THEN 10 ELSE IF cfg.density > 180 THEN 180 ELSE cfg.density

ExpThickness(cfg) ==
    IF cfg.thickness < 2 THEN 2
    ELSE IF cfg.thickness > ExpDensity(cfg) THEN ExpDensity(cfg) ELSE cfg.thickness

ExpScale(cfg) ==
    IF cfg.scale < 40 THEN 40 ELSE IF cfg.scale > 200 THEN 200 ELSE cfg.scale

\* clamp(clampedThickness, 4, clampedDensity / 1.6), on integers
ExpRadius(cfg) ==
    IF ExpThickness(cfg) < 4 THEN Num(4)
    ELSE IF 16 * ExpThickness(cfg) > 10 * ExpDensity(cfg) THEN Rat(10 * ExpDensity(cfg), 16)
    ELSE Num(ExpThickness(cfg))

\* the lengths a kind's background-image holds, from the clamped values
ExpImageLengths(type, cfg) ==
    LET t == Num(ExpThickness(cfg))
        d == Num(ExpDensity(cfg))
        r == ExpRadius(cfg)
    IN  CASE type = "stripes" -> <<t, t, d>>
          [] type \in {"grid", "weave"} -> <<t, t, d, t, t, d>>
          [] type = "dots" -> <<r, Add(r, Num(1)), Add(r, Num(2))>>
          [] type = "chevron" ->
                << t, t, Num(2 * ExpThickness(cfg)),
                   Rat(10 * ExpThickness(cfg), 13), Rat(10 * ExpThickness(cfg), 13),
                   Num(2 * ExpThickness(cfg)) >>

\* density and thickness are clamped: the emitted lengths are those of the
\* clamped values, 10 <= density <= 180 and 2 <= thickness <= density
ClampsApplied ==
    /\ PxLengths(CompiledImage) = ExpImageLengths(compiled.type, compiled.config)
    /\ LET d == ExpDensity(compiled.config)
           t == ExpThickness(compiled.config)
       IN  10 <= d /\ d <= 180 /\ 2 <= t /\ t <= d

\* position i of a chevron image holds a band period (2 * thickness)
IsChevronPeriod(i) == compiled.type = "chevron" /\ i \in {3, 6}

\* C1 as stated: for the five kinds and every config, density is clamped to
\* [10,180], thickness to [2, clamped density], and every thickness-derived
\* length of the output, the chevron period 2*thickness included, is at most the
\* clamped density.
C1_AllLengthsWithinDensity ==
    (CompileDone /\ compiled.type \in PatternTypes) =>
        /\ ClampsApplied
        /\ \A i \in 1..Len(PxLengths(CompiledImage)) :
              Leq(PxLengths(CompiledImage)[i], Num(ExpDensity(compiled.config)))
        /\ \A i \in 1..Len(PxLengths(CompileOut.descriptor)) :
              Leq(PxLengths(CompileOut.descriptor)[i], Num(ExpDensity(compiled.config)))

\* C1 amended: as C1, except that the chevron band period 2*thickness is bounded
\* by twice the clamped density, not by the clamped density; every other
\* thickness-derived length (band widths, the counter-band width thickness/1.3,
\* the dot radius and its ring offsets) is at most the clamped density.
C1_LengthsWithinDensityButChevronPeriod ==
    (CompileDone /\ compiled.type \in PatternTypes) =>
        /\ ClampsApplied
        /\ \A i \in 1..Len(PxLengths(CompiledImage)) :
              IF IsChevronPeriod(i)
              THEN /\ PxLengths(CompiledImage)[i] = Num(2 * ExpThickness(compiled.config))
                   /\ Leq(PxLengths(CompiledImage)[i], Num(2 * ExpDensity(compiled.config)))
              ELSE Leq(PxLengths(CompiledImage)[i], Num(ExpDensity(compiled.config)))
        /\ \A i \in 1..Len(PxLengths(CompileOut.descriptor)) :
              Leq(PxLengths(CompileOut.descriptor)[i], Num(ExpDensity(compiled.config)))

\* a chevron compiled from a thickness above the density and a density above
\* its range: the band width is the clamped density and the period twice that
C1_Witness ==
    /\ CompileDone
    /\ compiled.type = "chevron"
    /\ compiled.config.density = 181
    /\ compiled.config.thickness = 200
    /\ PxLengths(CompiledImage)[1] = Num(180)
    /\ PxLengths(CompiledImage)[3] = Num(360)

\* C2: for stripes, grid, dots and weave the tile size in backgroundSize is
\* clamp(density,10,180) * clamp(scale,40,200) / 100 on every axis emitted
\* (one axis for stripes, two for the others).
C2_TileSize ==
    (CompileDone /\ compiled.type \in {"stripes", "grid", "dots", "weave"}) =>
        LET size == PxLengths(ObjGet(CompileOut.styles, "backgroundSize"))
        IN  /\ Len(size) = (IF compiled.type = "stripes" THEN 1 ELSE 2)
            /\ Len(ObjGet(CompileOut.styles, "backgroundSize")) = 2 * Len(size)
            /\ \A i \in 1..Len(size) :
                  size[i] = Rat(ExpDensity(compiled.config) * ExpScale(compiled.config), 100)

\* a grid compiled from a density below and a scale above their ranges
C2_Witness ==
    /\ CompileDone
    /\ compiled.type = "grid"
    /\ compiled.config.density = 9
    /\ compiled.config.scale = 201
    /\ PxLengths(ObjGet(CompileOut.styles, "backgroundSize")) = <<Num(20), Num(20)>>

\* C8: each recognised kind has one layering label per layer of its
\* background-image (stripes 2, grid 3, dots 2, weave 3, chevron 3); any other
\* kind gets the base style, with no background-image, and no labels.
C8_LayeringTotal ==
    CompileDone =>
        IF compiled.type \in PatternTypes
        THEN /\ ObjHas(CompileOut.styles, "backgroundImage")
             /\ Len(CompileOut.layering) = LayerCount(CompiledImage)
             /\ Len(CompileOut.layering) =
                    (IF compiled.type \in {"stripes", "dots"} THEN 2 ELSE 3)
             /\ \A i \in 1..Len(CompileOut.layering) : ~IsEmptyStr(CompileOut.layering[i])
        ELSE /\ Keys(CompileOut.styles) =
                    {"backgroundColor", "backgroundAttachment", "backgroundRepeat", "filter"}
             /\ CompileOut.layering = <<>>
             /\ CompileOut.descriptor = <<Lit("Custom pattern")>>

\* an unrecognised kind was compiled
C8_Witness ==
    /\ CompileDone
    /\ compiled.type \notin PatternTypes
    /\ CompileOut.layering = <<>>

\* C9: the dot radius is clamp(clampedThickness, 4, clampedDensity/1.6): at
\* least 4, at most clampedDensity/1.6, and the clamped thickness whenever
\* that lies between the two; the lower bound never exceeds the upper one.
C9_DotRadius ==
    (CompileDone /\ compiled.type = "dots") =>
        LET r == PxLengths(CompiledImage)[1]
            t == ExpThickness(compiled.config)
            d == ExpDensity(compiled.config)
        IN  /\ Leq(Num(4), r)
            /\ Leq(r, Rat(10 * d, 16))
            /\ Leq(Num(4), Rat(10 * d, 16))
            /\ (4 <= t /\ 16 * t <= 10 * d) => r = Num(t)
            /\ r = ExpRadius(compiled.config)
            /\ (compiled.config.density = 70 /\ compiled.config.thickness = 16) => r = Num(16)
            /\ (compiled.config.density = 10 /\ compiled.config.thickness = 2) => r = Num(4)
            /\ (compiled.config.density = 180 /\ compiled.config.thickness = 180) =>
                    r = Rat(225, 2)

\* dots compiled at density 70, thickness 16: the radius is 16
C9_Witness ==
    /\ CompileDone
    /\ compiled.type = "dots"
    /\ compiled.config.density = 70
    /\ compiled.config.thickness = 16
    /\ PxLengths(CompiledImage)[1] = Num(16)

\* dots compiled at the boundaries of C9
C9_BoundaryReached ==
    /\ CompileDone
    /\ compiled.type = "dots"
    /\ \/ compiled.config.density = 10 /\ compiled.config.thickness = 2
       \/ compiled.config.density = 180 /\ compiled.config.thickness = 180

(***************************************************************************)
(* Direct calls of buildCssSnippet                                         *)
(***************************************************************************)
MaxStyleFields == 3

StyleKeys ==
    { "backgroundColor", "backgroundImage", "backgroundSize", "backgroundAttachment",
      "backgroundPosition", "backgroundBlendMode", "filter", "backgroundRepeat" }

StyleValues == { <<Str("")>>, <<Str("fixed")>> }

\* the objects of at most n attributes, in every insertion order
RECURSIVE StyleObjects(_)
StyleObjects(n) ==
    IF n = 0 THEN {<<>>}
    ELSE LET smaller == StyleObjects(n - 1)
         IN  smaller \cup
             UNION { { Append(o, [key |-> k, value |-> v]) :
                          k \in StyleKeys \ {o[i].key : i \in 1..Len(o)},
                          v \in StyleValues } :
                     o \in {p \in smaller : Len(p) = n - 1} }

Reverse(seq) == [i \in 1..Len(seq) |-> seq[Len(seq) + 1 - i]]

\* the styles the compiler returns, as returned and with the attributes
\* inserted in the opposite order
CompiledStyles ==
    LET made == {createPatternStyle(t, defaultConfig).styles : t \in CompileTypes}
    IN  made \cup {Reverse(st) : st \in made}

InitSerialize ==
    /\ InitApp
    /\ InitHarness!1
    /\ InitHarness!3
    /\ InitHarness!4
    /\ styleObj \in StyleObjects(MaxStyleFields) \cup CompiledStyles

Serialize ==
    /\ snippet = <<>>
    /\ snippet' = <<buildCssSnippet(styleObj)>>
    /\ UNCHANGED <<appVars, compiled, styleObj, scored>>

NextSerialize == Serialize

SpecSerialize == InitSerialize /\ [][NextSerialize]_vars

SerializeDone == snippet # <<>>

\* the lines between the selector line and the closing brace
SnippetBody == SubSeq(snippet[1], 2, Len(snippet[1]) - 1)

\* a line holding nothing but spaces
IsBlankLine(line) ==
    \A i \in 1..Len(line) : line[i].k \in {"lit", "str"} /\ line[i].s \in {"", " ", "  "}

IsDeclLine(line) == ~IsBlankLine(line)

DeclLines == SelectSeq(SnippetBody, IsDeclLine)

\* the place of a property in the fixed order of the claim
PropRank(prop) ==
    CASE prop = "background-color: " -> 1
      [] prop = "background-image: " -> 2
      [] prop = "background-size: " -> 3
      [] prop = "background-attachment: " -> 4
      [] prop = "background-position: " -> 5
      [] prop = "background-blend-mode: " -> 6
      [] prop = "filter: " -> 7
      [] OTHER -> 0

KeyOfRank(r) ==
    CASE r = 1 -> "backgroundColor"
      [] r = 2 -> "backgroundImage"
      [] r = 3 -> "backgroundSize"
      [] r = 4 -> "backgroundAttachment"
      [] r = 5 -> "backgroundPosition"
      [] r = 6 -> "backgroundBlendMode"
      [] r = 7 -> "filter"

\* the property a declaration line names: 0 when it names none
LineRank(line) ==
    IF Len(line) >= 3 /\ line[1] = Lit("  ") /\ line[2].k = "lit" THEN PropRank(line[2].s)
    ELSE 0

\* every declaration line is `  <prop>: <value of that attribute>;`, and the
\* properties appear in the fixed order, none twice
DeclsWellFormedInOrder ==
    /\ \A i \in 1..Len(DeclLines) :
          LET line == DeclLines[i]
          IN  /\ LineRank(line) \in 1..7
              /\ line[Len(line)] = Lit(";")
              /\ ObjHas(styleObj, KeyOfRank(LineRank(line)))
              /\ SubSeq(line, 3, Len(line) - 1) = ObjGet(styleObj, KeyOfRank(LineRank(line)))
    /\ \A i \in 1..(Len(DeclLines) - 1) : LineRank(DeclLines[i]) < LineRank(DeclLines[i + 1])

EmittedRanks == {LineRank(DeclLines[i]) : i \in 1..Len(DeclLines)}

\* C5 as stated: the declarations come in the fixed order whatever the
\* insertion order; an absent attribute gives no declaration and each present
\* attribute gives exactly one, ending in a semicolon.
C5_OnePerPresentAttribute ==
    SerializeDone =>
        /\ DeclsWellFormedInOrder
        /\ EmittedRanks = {r \in 1..7 : ObjHas(styleObj, KeyOfRank(r))}

\* C5 amended: the declarations come in the fixed order whatever the insertion
\* order; an attribute that is absent or whose value is the empty string gives
\* no declaration, and each attribute present with a non-empty value gives
\* exactly one, ending in a semicolon.
C5_OnePerNonEmptyAttribute ==
    SerializeDone =>
        /\ DeclsWellFormedInOrder
        /\ EmittedRanks =
              {r \in 1..7 : ObjHas(styleObj, KeyOfRank(r))
                            /\ ~IsEmptyStr(ObjGet(styleObj, KeyOfRank(r)))}

\* a style whose attributes were inserted against the fixed order was
\* serialized into two declarations
C5_Witness ==
    /\ SerializeDone
    /\ Len(styleObj) >= 2
    /\ styleObj[1].key = "filter"
    /\ styleObj[2].key = "backgroundColor"
    /\ Len(DeclLines) = 2
    /\ LineRank(DeclLines[1]) = 1

\* the full style of a compiled pattern, inserted in reverse, was serialized
C5_FullStyleReached ==
    /\ SerializeDone
    /\ Len(DeclLines) = 7
    /\ styleObj[1].key = "backgroundPosition"

\* C6: for every style, also one with none of the seven attributes, the output
\* starts with the selector line and has no blank or whitespace-only line
\* between the selector line and the closing brace.
C6_NoBlankDeclarationLine ==
    SerializeDone =>
        /\ snippet[1][1] = <<Lit(".pattern-surface {")>>
        /\ snippet[1][Len(snippet[1])] = <<Lit("}")>>
        /\ \A i \in 1..Len(SnippetBody) : ~IsBlankLine(SnippetBody[i])

(***************************************************************************)
(* Direct calls of calculateComplexity, two at a time                      *)
(***************************************************************************)
ScoreThicknesses == {-2, 0, 2, 14, 80}
ScoreDensities == {-4, 0, 1, 12, 48, 180}
ScoreSoftness == {0, 48}
ScoreScales == {40, 100}

ScoreConfigs ==
    { [defaultConfig EXCEPT !.density = d, !.thickness = t, !.softness = so, !.scale = sc] :
        d \in ScoreDensities, t \in ScoreThicknesses,
        so \in ScoreSoftness, sc \in ScoreScales }

InitScore ==
    /\ InitApp
    /\ InitHarness!1
    /\ InitHarness!2
    /\ InitHarness!3
    /\ scored \in {<<[config |-> a, out |-> <<>>], [config |-> b, out |-> <<>>]>> :
                      a \in ScoreConfigs, b \in ScoreConfigs}

Score ==
    /\ \E i \in 1..Len(scored) : scored[i].out = <<>>
    /\ scored' = [i \in 1..Len(scored) |->
                    [scored[i] EXCEPT !.out = <<calculateComplexity(scored[i].config)>>]]
    /\ UNCHANGED <<appVars, compiled, styleObj, snippet>>

NextScore == Score

SpecScore == InitScore /\ [][NextScore]_vars

ScoreDone == Len(scored) = 2 /\ \A i \in 1..2 : scored[i].out # <<>>

\* round(clamp(thickness/density*60 + softness/100*28 + scale/100*12, 6, 98))
\* on integers, a zero or negative density replaced by 1 before dividing
GuardedScore(cfg) ==
    LET dd == IF cfg.density <= 0 THEN 1 ELSE cfg.density
        num == 6000 * cfg.thickness + (28 * cfg.softness + 12 * cfg.scale) * dd
        den == 100 * dd
    IN  IF num < 6 * den THEN 6
        ELSE IF num > 98 * den THEN 98
        ELSE (2 * num + den) \div (2 * den)

IsScoreInRange(x) == IsFinite(x) /\ x.d = 1 /\ 6 <= x.n /\ x.n <= 98

\* C3: the score is an integer in [6,98] for every config; a zero or negative
\* density is replaced by 1 before the division, so the result is always a
\* number.
C3_ScoreGuardsDensity ==
    ScoreDone =>
        \A i \in 1..2 :
            /\ IsScoreInRange(scored[i].out[1])
            /\ scored[i].out[1] = Num(GuardedScore(scored[i].config))

\* C4: for two configs of equal softness and scale, thickness1/density1 <=
\* thickness2/density2 implies score1 <= score2, and for a positive density the
\* score is round(clamp(thickness/density*60 + softness/100*28 + scale/100*12,
\* 6, 98)).
C4_ScoreMonotone ==
    ScoreDone =>
        /\ \A i \in 1..2 :
              scored[i].config.density > 0 =>
                  scored[i].out[1] = Num(GuardedScore(scored[i].config))
        /\ ( /\ scored[1].config.softness = scored[2].config.softness
             /\ scored[1].config.scale = scored[2].config.scale
             /\ Leq(Div(Num(scored[1].config.thickness), Num(scored[1].config.density)),
                    Div(Num(scored[2].config.thickness), Num(scored[2].config.density))) )
           => Leq(scored[1].out[1], scored[2].out[1])

\* two configs that differ in thickness only were scored, below the ceiling
C4_Witness ==
    /\ ScoreDone
    /\ scored[1].config = [defaultConfig EXCEPT !.thickness = 2]
    /\ scored[2].config = defaultConfig
    /\ scored[1].out[1] = Num(28)
    /\ scored[2].out[1] = Num(43)

\* a pair with a zero density on one side and a negative one on the other
C4_DegenerateReached ==
    /\ ScoreDone
    /\ scored[1].config.density = -4
    /\ scored[1].config.thickness = 2
    /\ scored[2].config.density = 0
    /\ scored[2].config.thickness = 2

(***************************************************************************)
(* Home and useCopy                                                        *)
(***************************************************************************)
MaxEdits == 1
MaxCopies == 1

\* values the controls deliver: ends of the sliders' ranges
ColorInputs == {"#ffffff"}
AngleInputs == {360}
DensityInputs == {12, 180}
ThicknessInputs == {2, 80}
SoftnessInputs == {100}
ScaleInputs == {40, 200}

\* useMemo(() => createPatternStyle(patternType, config), [config]):
\* the kind left out of the dependencies
useMemoStyleConfigOnly(memo, type, cfg) ==
    IF memo.deps[2] = cfg THEN memo
    ELSE [deps |-> <<type, cfg>>, value |-> createPatternStyle(type, cfg)]

\* useMemo(() => createPatternStyle(patternType, config), [patternType, config])
useMemoStyle(memo, type, cfg) ==
    IF memo.deps = <<type, cfg>> THEN memo
    ELSE [deps |-> <<type, cfg>>, value |-> createPatternStyle(type, cfg)]

\* the render that follows a state update: the three useMemo hooks of Home
Render(type, cfg) ==
    /\ styleMemo' = useMemoStyle(styleMemo, type, cfg)
    /\ cssSnippet' = IF styleMemo'.value.styles = styleMemo.value.styles THEN cssSnippet
                     ELSE buildCssSnippet(styleMemo'.value.styles)
    /\ complexityScore' = IF cfg = config THEN complexityScore
                          ELSE calculateComplexity(cfg)

\* setConfig((prev) => ({ ...prev, field: value })) and the render after it
SetConfig(cfg) ==
    /\ edits < MaxEdits
    /\ edits' = edits + 1
    /\ config' = cfg
    /\ Render(patternType, cfg)
    /\ UNCHANGED <<patternType, copied, pending, timers, consoleErrors, harnessVars>>

SelectType ==
    \E t \in PatternTypes :
        /\ patternType' = t
        /\ Render(t, config)
        /\ UNCHANGED <<config, copied, pending, timers, consoleErrors, edits, harnessVars>>

SetPrimaryColor == \E v \in ColorInputs : SetConfig([config EXCEPT !.primaryColor = v])

SetSecondaryColor == \E v \in ColorInputs : SetConfig([config EXCEPT !.secondaryColor = v])

SetAccentColor == \E v \in ColorInputs : SetConfig([config EXCEPT !.accentColor = v])

SetAngle == \E v \in AngleInputs : SetConfig([config EXCEPT !.angle = v])

SetDensity == \E v \in DensityInputs : SetConfig([config EXCEPT !.density = v])

SetThickness == \E v \in ThicknessInputs : SetConfig([config EXCEPT !.thickness = v])

SetSoftness == \E v \in SoftnessInputs : SetConfig([config EXCEPT !.softness = v])

SetScale == \E v \in ScaleInputs : SetConfig([config EXCEPT !.scale = v])

\* the preset merged into the previous config, the accent colour kept
applyPresetKeepingAccent ==
    \E i \in 1..Len(presets) :
        LET merged == [presets[i].config EXCEPT !.accentColor = config.accentColor]
        IN  /\ patternType' = presets[i].type
            /\ config' = merged
            /\ Render(presets[i].type, merged)
            /\ edits' = 0
            /\ UNCHANGED <<copied, pending, timers, consoleErrors, harnessVars>>

applyPreset ==
    \E i \in 1..Len(presets) :
        /\ patternType' = presets[i].type
        /\ config' = presets[i].config
        /\ Render(presets[i].type, presets[i].config)
        /\ edits' = 0
        /\ UNCHANGED <<copied, pending, timers, consoleErrors, harnessVars>>

resetConfig ==
    /\ patternType' = "stripes"
    /\ config' = defaultConfig
    /\ Render("stripes", defaultConfig)
    /\ edits' = 0
    /\ UNCHANGED <<copied, pending, timers, consoleErrors, harnessVars>>

\* onClick={() => copy(cssSnippet)}: writeText is called and awaited
CopyClick ==
    /\ pending + timers + consoleErrors < MaxCopies
    /\ pending' = pending + 1
    /\ UNCHANGED <<patternType, config, copied, timers, consoleErrors, styleMemo,
                   cssSnippet, complexityScore, edits, harnessVars>>

\* onClick={() => copy(cssSnippet)} where navigator.clipboard.writeText throws
\* at once: the catch block runs within the click
CopyClickThrows ==
    /\ pending + timers + consoleErrors < MaxCopies
    /\ consoleErrors' = consoleErrors + 1
    /\ UNCHANGED <<patternType, config, copied, pending, timers, styleMemo,
                   cssSnippet, complexityScore, edits, harnessVars>>

\* the awaited write resolves: setCopied(true); setTimeout(..., 1600)
WriteResolved ==
    /\ pending > 0
    /\ pending' = pending - 1
    /\ copied' = TRUE
    /\ timers' = timers + 1
    /\ UNCHANGED <<patternType, config, consoleErrors, styleMemo, cssSnippet,
                   complexityScore, edits, harnessVars>>

\* the awaited write rejects: console.error('Unable to copy', error)
WriteRejected ==
    /\ pending > 0
    /\ pending' = pending - 1
    /\ consoleErrors' = consoleErrors + 1
    /\ UNCHANGED <<patternType, config, copied, timers, styleMemo, cssSnippet,
                   complexityScore, edits, harnessVars>>

\* the timeout callback: setCopied(false)
CopiedTimeout ==
    /\ timers > 0
    /\ timers' = timers - 1
    /\ copied' = FALSE
    /\ UNCHANGED <<patternType, config, pending, consoleErrors, styleMemo, cssSnippet,
                   complexityScore, edits, harnessVars>>

Init == InitApp /\ InitHarness

Next ==
    \/ SelectType
    \/ SetPrimaryColor
    \/ SetSecondaryColor
    \/ SetAccentColor
    \/ SetAngle
    \/ SetDensity
    \/ SetThickness
    \/ SetSoftness
    \/ SetScale
    \/ applyPreset
    \/ resetConfig
    \/ CopyClick
    \/ CopyClickThrows
    \/ WriteResolved
    \/ WriteRejected
    \/ CopiedTimeout

Spec == Init /\ [][Next]_vars

\* C7: the compiler keeps no hidden state: the style, descriptor and layering
\* kept from an earlier call, with any other operations in between, are those
\* a call with the same (kind, config) returns now, and what the page shows
\* after any sequence of edits is createPatternStyle of the current kind and
\* config (and its serialization and score).
C7_ShownStyleIsCompiledFromCurrent ==
    /\ styleMemo.deps = <<patternType, config>>
    /\ styleMemo.value = createPatternStyle(styleMemo.deps[1], styleMemo.deps[2])
    /\ styleMemo.value = createPatternStyle(patternType, config)
    /\ cssSnippet = buildCssSnippet(createPatternStyle(patternType, config).styles)
    /\ complexityScore = calculateComplexity(config)

\* a kind was selected and a field edited, then a copy ran to its end while
\* the memoized style stayed in place
C7_Witness ==
    /\ patternType = "grid"
    /\ config = [defaultConfig EXCEPT !.density = 12]
    /\ copied
    /\ timers = 1
    /\ PxLengths(ObjGet(styleMemo.value.styles, "backgroundSize")) = <<Num(12), Num(12)>>

\* what the page renders
View == <<patternType, config, copied, styleMemo.value, cssSnippet, complexityScore>>

\* kind, config, derived style, CSS text and score: the core
Core == <<patternType, config, styleMemo, cssSnippet, complexityScore>>

CopyStep == pending' # pending \/ timers' # timers \/ consoleErrors' # consoleErrors

\* C10: a failed clipboard write is caught and logged and shows up in the page
\* as a transient message; no copy attempt, successful or failed, changes the
\* kind, the config, the derived style, the CSS text or the score; and copied
\* is set only by a write that succeeded.
C10_CopyFailureSurfaces ==
    [][ /\ CopyStep => Core' = Core
        /\ (copied' /\ ~copied) => (pending' = pending - 1 /\ timers' = timers + 1)
        /\ (consoleErrors' # consoleErrors) =>
              (consoleErrors' = consoleErrors + 1 /\ View' # View) ]_vars

\* C10 without the message: what the code does on every copy step
C10_CopyLeavesCoreUnchanged ==
    [][ /\ CopyStep => Core' = Core
        /\ (copied' /\ ~copied) => (pending' = pending - 1 /\ timers' = timers + 1)
        /\ (consoleErrors' # consoleErrors) =>
              (consoleErrors' = consoleErrors + 1 /\ View' = View) ]_vars

ConfigFields ==
    { "primaryColor", "secondaryColor", "accentColor", "angle", "density", "thickness",
      "softness", "scale" }

\* the fields a step changes
ChangedFields == {f \in ConfigFields : config'[f] # config[f]}

\* the states a preset or a reset leaves: (kind, config) of the table, and
\* (stripes, defaultConfig)
WholesaleStates ==
    {<<"stripes", defaultConfig>>} \cup
    {<<presets[i].type, presets[i].config>> : i \in 1..Len(presets)}

\* C11: a preset or a reset replaces kind and config wholesale, whatever was
\* selected and edited before: the step leaves exactly a preset's (kind,
\* config) or (stripes, defaultConfig), no field kept; a field edit changes
\* that one field and leaves the kind and the other seven fields as they were;
\* a kind selection (and every other step) leaves the config as it was.
\* Steps are told apart by the count of edits since the last preset or reset:
\* an edit raises it by one, a preset or reset sets it to 0.
C11_WholesaleOrOneField ==
    [][ /\ (edits' = edits + 1) =>
              (patternType' = patternType /\ Cardinality(ChangedFields) <= 1)
        /\ (edits' # edits + 1) =>
              \/ edits' = edits /\ config' = config
              \/ edits' = 0 /\ <<patternType', config'>> \in WholesaleStates
        /\ (edits' = 0) =>
              config' \in {defaultConfig} \cup {presets[i].config : i \in 1..Len(presets)} ]_vars

\* the Orbital Dots preset was applied and then the density alone edited
C11_Witness ==
    /\ patternType = "dots"
    /\ edits = 1
    /\ config = [presets[3].config EXCEPT !.density = 12]

\* the score computed from the clamped thickness and density of the compiler
\* instead of the raw ones
ScoreOfClampedRatio(cfg) ==
    GuardedScore([cfg EXCEPT !.density = ExpDensity(cfg), !.thickness = ExpThickness(cfg)])

\* the configs at the ends of the density, thickness, softness and scale
\* sliders: the score is monotone in each, so these bound every score
SliderCorners ==
    { [defaultConfig EXCEPT !.density = d, !.thickness = t, !.softness = so, !.scale = sc] :
        d \in {12, 180}, t \in {2, 80}, so \in {0, 100}, sc \in {40, 200} }

\* C12: in every state the page reaches (defaultConfig, then slider edits in
\* the sliders' ranges, presets and resets) the density is at least 12 and the
\* thickness at least 2, so the score shown is an integer in [6,98]: the
\* rounded, clamped weighted sum of the raw thickness/density ratio, although
\* the thickness (up to 80) may exceed the density (down to 12).
C12_ShownScoreInRange ==
    /\ config.density >= 12
    /\ config.density <= 180
    /\ config.thickness >= 2
    /\ config.thickness <= 80
    /\ IsScoreInRange(complexityScore)
    /\ complexityScore = Num(GuardedScore(config))
    /\ \A c \in SliderCorners :
          /\ IsScoreInRange(calculateComplexity(c))
          /\ calculateComplexity(c) = Num(GuardedScore(c))
    /\ calculateComplexity([defaultConfig EXCEPT !.density = 12, !.thickness = 80,
                                                 !.softness = 100, !.scale = 200]) = Num(98)
    /\ calculateComplexity([defaultConfig EXCEPT !.density = 180, !.thickness = 2,
                                                 !.softness = 0, !.scale = 40]) = Num(6)

\* the thickness slider was moved to 80 above a density of 48: the score is
\* the ceiling 98, where the clamped ratio of the compiler would give 85
C12_Witness ==
    /\ config = [defaultConfig EXCEPT !.thickness = 80]
    /\ config.thickness > config.density
    /\ complexityScore = Num(98)
    /\ ScoreOfClampedRatio(config) = 85

====
